---- MODULE Spec2Model ----
(***************************************************************************)
(* State-machine model of app.py: the download job thread, the /stream     *)
(* generator, the session cleanup helper and the stale-file reaper, over   *)
(* a shared download directory and the active_downloads registry.          *)
(*                                                                         *)
(* Strings are sequences of one-character strings, so that the glob        *)
(* patterns the code builds from client-supplied session ids are matched   *)
(* the way fnmatch matches them.                                           *)
(***************************************************************************)
EXTENDS Integers, Sequences, FiniteSets, TLC

(* ------------------------------ bounds --------------------------------- *)

\* The clock is observed at k * cutoff + d, k <= MaxEpochs, d <= MaxSkew.
MaxEpochs == 1
MaxSkew == 1
\* The engine's output grows up to MaxChunks full read blocks (plus a byte).
MaxChunks == 1

(* -------------------------- program constants -------------------------- *)

cutoff == 1200          \* 20 * 60 seconds
MinBytes == 2048        \* the buffering threshold of generate()
ChunkBytes == 65536     \* 1024 * 64, the read block of generate()
MaxPolls == 60          \* the Phase A budget "timeout > 60"

(* ------------------------------ strings -------------------------------- *)

None == <<>>
Sep == <<"_">>
Star == <<"*">>
Ext == <<".", "m">>

\* The session tokens clients send, and the random suffixes uuid4 draws.
TokA == <<"a">>
TokB == <<"b">>
TokStar == <<"*">>
TokQ == <<"?">>
TokAB == <<"a", "b">>
Tokens == {TokA, TokB, TokStar, TokQ, TokAB}
U1 == <<"1">>
U2 == <<"2">>
Uuids == {U1, U2}

\* file_id = f"{session_id}_{uuid.uuid4()}"
FileId(session_id, u) == session_id \o Sep \o u

FileIds == {FileId(s, u) : s \in Tokens, u \in Uuids}

\* The engine's output template f"{filename}.%(ext)s", extension filled in.
OutputPath(file_id) == file_id \o Ext

IsPrefix(p, s) == Len(p) <= Len(s) /\ SubSeq(s, 1, Len(p)) = p

\* fnmatch of one directory entry against a pattern: "*" matches any run of
\* characters, "?" exactly one, anything else itself.
RECURSIVE fnmatch(_, _)
fnmatch(name, pat) ==
    IF pat = <<>> THEN name = <<>>
    ELSE IF Head(pat) = "*"
         THEN fnmatch(name, Tail(pat)) \/ (name # <<>> /\ fnmatch(Tail(name), pat))
    ELSE IF Head(pat) = "?"
         THEN name # <<>> /\ fnmatch(Tail(name), Tail(pat))
    ELSE name # <<>> /\ Head(name) = Head(pat) /\ fnmatch(Tail(name), Tail(pat))

(* ------------------------------- state --------------------------------- *)

VARIABLES
    active_downloads,   \* the registry: file_id -> 'downloading' | 'completed' | 'error'
    dir,                \* the download directory: name -> [ino, born, ctime]
    written,            \* file_id -> bytes its job has written so far, -1: no file yet
    job,                \* file_id -> position of its download_video_thread
    gen,                \* file_id -> the frame of its generate()
    now,                \* time.time()
    reaper,             \* the frame of clean_stale_files
    ev                  \* what the step that led here removed or ended, if anything

vars == <<active_downloads, dir, written, job, gen, now, reaper, ev>>

\* glob.glob(os.path.join(DOWNLOAD_FOLDER, pattern)): the entries that match.
glob(pattern) == {n \in DOMAIN dir : fnmatch(n, pattern)}

Instants == {k * cutoff + d : k \in 0..MaxEpochs, d \in 0..MaxSkew}

Sizes == {MinBytes, MinBytes + 1} \cup {k * ChunkBytes + 1 : k \in 1..MaxChunks}

Min(a, b) == IF a < b THEN a ELSE b

Terminal == {"completed", "error"}

\* The frame of generate() at line 175: its position, its locals (timeout, temp_path,
\* filepath, the open file f and its read offset, the chunk being yielded),
\* the bytes the response has carried so far and the way it ended. The
\* locals are cleared where the code reads them no more (timeout after the
\* buffering loop is left other than by its budget, temp_path after line 190).
NoGen == [pc |-> "glob", timeout |-> 0, temp_path |-> None, filepath |-> None,
          f |-> None, pos |-> 0, chunk |-> 0, emitted |-> 0, exit |-> "no"]

\* The frame of clean_stale_files: its position, its locals (now, the
\* listing still to visit, the current filename), and the entries that were
\* past the cutoff when the sweep took its listing.
NoReaper == [pc |-> "idle", start |-> 0, todo |-> {}, filename |-> None, stale |-> {}]

NoEvent == [op |-> "none"]

Unlink(names) == [n \in (DOMAIN dir) \ names |-> dir[n]]

\* active_downloads.get(file_id)
Get(file_id) ==
    IF file_id \in DOMAIN active_downloads THEN active_downloads[file_id] ELSE "absent"

\* active_downloads[file_id] = status
Set(file_id, status) ==
    [i \in DOMAIN active_downloads \cup {file_id} |->
        IF i = file_id THEN status ELSE active_downloads[i]]

\* The file ids of the requests made so far.
Started == DOMAIN job

UsedUuids == {u \in Uuids : \E s \in Tokens : FileId(s, u) \in Started}

Init ==
    /\ active_downloads = <<>>
    /\ dir = <<>>
    /\ written = <<>>
    /\ job = <<>>
    /\ gen = <<>>
    /\ now = 0
    /\ reaper = NoReaper
    /\ ev = NoEvent

(* --------------------------- /stream route ----------------------------- *)

\* stream(): a non-empty session id, a fresh uuid4, the job thread started
\* and the response generator handed to the server.
stream(session_id, u) ==
    /\ session_id # <<>>
    /\ u \notin UsedUuids
    /\ LET file_id == FileId(session_id, u) IN
        /\ job' = (file_id :> "spawned") @@ job
        /\ gen' = (file_id :> NoGen) @@ gen
        /\ written' = (file_id :> -1) @@ written
    /\ ev' = NoEvent
    /\ UNCHANGED <<active_downloads, dir, now, reaper>>

(* ----------------------- download_video_thread ------------------------- *)

\* line 75: active_downloads[filename] = 'downloading'
JobBegin(filename) ==
    /\ filename \in Started
    /\ job[filename] = "spawned"
    /\ active_downloads' = Set(filename, "downloading")
    /\ job' = [job EXCEPT ![filename] = "engine"]
    /\ ev' = NoEvent
    /\ UNCHANGED <<dir, written, gen, now, reaper>>

\* ydl.download at work: the engine creates its output file on its first
\* write and appends to it afterwards. An append reaches the file the
\* engine holds open even after its directory entry was removed. An append
\* moves the entry's ctime or not (`touch`: getctime is the time of the last
\* change on some platforms and the time of creation on others).
EngineWrite(filename, size, touch) ==
    /\ filename \in Started
    /\ job[filename] = "engine"
    /\ size \in Sizes /\ size > written[filename]
    /\ written' = [written EXCEPT ![filename] = size]
    /\ LET path == OutputPath(filename) IN
       IF written[filename] = -1
       THEN dir' = (path :> [ino |-> filename, born |-> now, ctime |-> now]) @@ dir
       ELSE IF path \in DOMAIN dir /\ touch
            THEN dir' = [dir EXCEPT ![path].ctime = now]
            ELSE dir' = dir
    /\ (written[filename] = -1 => ~touch)
    /\ ev' = NoEvent
    /\ UNCHANGED <<active_downloads, job, gen, now, reaper>>

\* JobCompleted with line 98 still under the except clause of line 100: the
\* thread stays where a failure can follow the write.
JobCompleted_ThenMayFail(filename) ==
    /\ filename \in Started
    /\ job[filename] = "engine"
    /\ Get(filename) = "downloading"
    /\ written[filename] >= 0
    /\ active_downloads' = Set(filename, "completed")
    /\ job' = job
    /\ ev' = NoEvent
    /\ UNCHANGED <<dir, written, gen, now, reaper>>

\* lines 96-99: the engine returned; active_downloads[filename] = 'completed'
JobCompleted(filename) ==
    /\ filename \in Started
    /\ job[filename] = "engine"
    /\ written[filename] >= 0
    /\ active_downloads' = Set(filename, "completed")
    /\ job' = [job EXCEPT ![filename] = "returned_ok"]
    /\ ev' = NoEvent
    /\ UNCHANGED <<dir, written, gen, now, reaper>>

\* JobError without the except clause: the exception leaves the thread and
\* the registry keeps 'downloading'.
JobError_Unhandled(filename) ==
    /\ filename \in Started
    /\ job[filename] = "engine"
    /\ job' = [job EXCEPT ![filename] = "raised"]
    /\ ev' = NoEvent
    /\ UNCHANGED <<active_downloads, dir, written, gen, now, reaper>>

\* lines 100-102: the engine raised; active_downloads[filename] = 'error'
JobError(filename) ==
    /\ filename \in Started
    /\ job[filename] = "engine"
    /\ active_downloads' = Set(filename, "error")
    /\ job' = [job EXCEPT ![filename] = "returned_err"]
    /\ ev' = NoEvent
    /\ UNCHANGED <<dir, written, gen, now, reaper>>

(* ------------------------- stream.generate ----------------------------- *)

\* line 181: matches = glob.glob(f"{file_id}*"); line 183: if matches;
\* line 184: temp_path = matches[0], the listing order being the system's.
GenGlob(file_id) ==
    /\ file_id \in Started
    /\ gen[file_id].pc = "glob"
    /\ LET matches == glob(file_id \o Star) IN
       IF matches = {}
       THEN gen' = [gen EXCEPT ![file_id].pc = "status"]
       ELSE \E m \in matches :
              gen' = [gen EXCEPT ![file_id].pc = "exists", ![file_id].temp_path = m]
    /\ ev' = NoEvent
    /\ UNCHANGED <<active_downloads, dir, written, job, now, reaper>>

\* line 188, left operand: os.path.exists(temp_path)
GenExists(file_id) ==
    /\ file_id \in Started
    /\ gen[file_id].pc = "exists"
    /\ gen' = [gen EXCEPT ![file_id].pc =
                 IF gen[file_id].temp_path \in DOMAIN dir THEN "getsize" ELSE "status",
               ![file_id].temp_path =
                 IF gen[file_id].temp_path \in DOMAIN dir THEN @ ELSE None]
    /\ ev' = NoEvent
    /\ UNCHANGED <<active_downloads, dir, written, job, now, reaper>>

\* GenGetsize with >= 2048 for > 2048.
GenGetsize_AtThreshold(file_id) ==
    /\ file_id \in Started
    /\ gen[file_id].pc = "getsize"
    /\ LET g == gen[file_id] IN
       IF g.temp_path \notin DOMAIN dir
       THEN gen' = [gen EXCEPT ![file_id].pc = "ended", ![file_id].exit = "raised",
                               ![file_id].temp_path = None, ![file_id].timeout = 0]
       ELSE IF written[dir[g.temp_path].ino] >= MinBytes
       THEN gen' = [gen EXCEPT ![file_id].pc = "open", ![file_id].filepath = g.temp_path,
                               ![file_id].temp_path = None, ![file_id].timeout = 0]
       ELSE gen' = [gen EXCEPT ![file_id].pc = "status", ![file_id].temp_path = None]
    /\ ev' = NoEvent
    /\ UNCHANGED <<active_downloads, dir, written, job, now, reaper>>

\* line 188, right operand: os.path.getsize(temp_path) > 2048, which raises
\* OSError out of the generator when the entry is gone; lines 189-190.
GenGetsize(file_id) ==
    /\ file_id \in Started
    /\ gen[file_id].pc = "getsize"
    /\ LET g == gen[file_id] IN
       IF g.temp_path \notin DOMAIN dir
       THEN gen' = [gen EXCEPT ![file_id].pc = "ended", ![file_id].exit = "raised",
                               ![file_id].temp_path = None, ![file_id].timeout = 0]
       ELSE IF written[dir[g.temp_path].ino] > MinBytes
       THEN gen' = [gen EXCEPT ![file_id].pc = "open", ![file_id].filepath = g.temp_path,
                               ![file_id].temp_path = None, ![file_id].timeout = 0]
       ELSE gen' = [gen EXCEPT ![file_id].pc = "status", ![file_id].temp_path = None]
    /\ ev' = NoEvent
    /\ UNCHANGED <<active_downloads, dir, written, job, now, reaper>>

\* GenPoll that cancels the job when it gives up on its budget.
GenPoll_Cancels(file_id) ==
    /\ file_id \in Started
    /\ gen[file_id].pc = "status"
    /\ LET g == gen[file_id] IN
       IF Get(file_id) = "error"
       THEN /\ gen' = [gen EXCEPT ![file_id].pc = "ended", ![file_id].exit = "error",
                                  ![file_id].timeout = 0]
            /\ job' = job
       ELSE IF g.timeout > MaxPolls
       THEN /\ gen' = [gen EXCEPT ![file_id].pc = "ended", ![file_id].exit = "timeout"]
            /\ job' = [job EXCEPT ![file_id] = "cancelled"]
       ELSE /\ gen' = [gen EXCEPT ![file_id].pc = "glob", ![file_id].timeout = g.timeout + 1]
            /\ job' = job
    /\ ev' = NoEvent
    /\ UNCHANGED <<active_downloads, dir, written, now, reaper>>

\* lines 193-197: return on 'error', return on timeout > 60, else sleep
\* half a second and count it.
GenPoll(file_id) ==
    /\ file_id \in Started
    /\ gen[file_id].pc = "status"
    /\ LET g == gen[file_id] IN
       IF Get(file_id) = "error"
       THEN gen' = [gen EXCEPT ![file_id].pc = "ended", ![file_id].exit = "error",
                               ![file_id].timeout = 0]
       ELSE IF g.timeout > MaxPolls
       THEN gen' = [gen EXCEPT ![file_id].pc = "ended", ![file_id].exit = "timeout"]
       ELSE gen' = [gen EXCEPT ![file_id].pc = "glob", ![file_id].timeout = g.timeout + 1]
    /\ ev' = NoEvent
    /\ UNCHANGED <<active_downloads, dir, written, job, now, reaper>>

\* line 200: open(filepath, "rb"), which raises FileNotFoundError out of the
\* generator when the entry is gone.
GenOpen(file_id) ==
    /\ file_id \in Started
    /\ gen[file_id].pc = "open"
    /\ LET g == gen[file_id] IN
       IF g.filepath \notin DOMAIN dir
       THEN gen' = [gen EXCEPT ![file_id].pc = "ended", ![file_id].exit = "raised"]
       ELSE gen' = [gen EXCEPT ![file_id].pc = "read", ![file_id].f = dir[g.filepath].ino]
    /\ ev' = NoEvent
    /\ UNCHANGED <<active_downloads, dir, written, job, now, reaper>>

\* GenRead that counts a full block for every read that returns data.
GenRead_FullBlock(file_id) ==
    /\ file_id \in Started
    /\ gen[file_id].pc = "read"
    /\ LET g == gen[file_id] IN
       IF written[g.f] - g.pos > 0
       THEN gen' = [gen EXCEPT ![file_id].pc = "yield", ![file_id].chunk = ChunkBytes,
                               ![file_id].pos = g.pos + ChunkBytes]
       ELSE gen' = [gen EXCEPT ![file_id].pc = "drain"]
    /\ ev' = NoEvent
    /\ UNCHANGED <<active_downloads, dir, written, job, now, reaper>>

\* GenRead that reads only once the status is terminal, and polls it before.
GenRead_AwaitsStatus(file_id) ==
    /\ file_id \in Started
    /\ gen[file_id].pc = "read"
    /\ LET g == gen[file_id]
           n == Min(ChunkBytes, written[g.f] - g.pos) IN
       IF n > 0 /\ Get(file_id) \in Terminal
       THEN gen' = [gen EXCEPT ![file_id].pc = "yield", ![file_id].chunk = n,
                               ![file_id].pos = g.pos + n]
       ELSE gen' = [gen EXCEPT ![file_id].pc = "drain"]
    /\ ev' = NoEvent
    /\ UNCHANGED <<active_downloads, dir, written, job, now, reaper>>

\* lines 202-203: chunk = f.read(1024 * 64); if chunk
GenRead(file_id) ==
    /\ file_id \in Started
    /\ gen[file_id].pc = "read"
    /\ LET g == gen[file_id]
           n == Min(ChunkBytes, written[g.f] - g.pos) IN
       IF n > 0
       THEN gen' = [gen EXCEPT ![file_id].pc = "yield", ![file_id].chunk = n,
                               ![file_id].pos = g.pos + n]
       ELSE gen' = [gen EXCEPT ![file_id].pc = "drain"]
    /\ ev' = NoEvent
    /\ UNCHANGED <<active_downloads, dir, written, job, now, reaper>>

\* line 204: yield chunk, the server writes it to the client.
GenYield(file_id) ==
    /\ file_id \in Started
    /\ gen[file_id].pc = "yield"
    /\ gen' = [gen EXCEPT ![file_id].pc = "read", ![file_id].chunk = 0,
                            ![file_id].emitted = gen[file_id].emitted + gen[file_id].chunk]
    /\ ev' = NoEvent
    /\ UNCHANGED <<active_downloads, dir, written, job, now, reaper>>

\* line 204, the client gone: the server closes the generator at its yield.
GenClose(file_id) ==
    /\ file_id \in Started
    /\ gen[file_id].pc = "yield"
    /\ gen' = [gen EXCEPT ![file_id].pc = "ended", ![file_id].exit = "closed",
                            ![file_id].chunk = 0]
    /\ ev' = NoEvent
    /\ UNCHANGED <<active_downloads, dir, written, job, now, reaper>>

\* GenDrain that drops its registry entry when it breaks.
GenDrain_Forgets(file_id) ==
    /\ file_id \in Started
    /\ gen[file_id].pc = "drain"
    /\ IF Get(file_id) \in Terminal
       THEN /\ gen' = [gen EXCEPT ![file_id].pc = "ended", ![file_id].exit = "drained"]
            /\ active_downloads' = [i \in DOMAIN active_downloads \ {file_id} |->
                                       active_downloads[i]]
       ELSE /\ gen' = [gen EXCEPT ![file_id].pc = "read"]
            /\ active_downloads' = active_downloads
    /\ ev' = NoEvent
    /\ UNCHANGED <<dir, written, job, now, reaper>>

\* lines 207-210: break on a terminal status, else sleep and read again.
GenDrain(file_id) ==
    /\ file_id \in Started
    /\ gen[file_id].pc = "drain"
    /\ IF Get(file_id) \in Terminal
       THEN gen' = [gen EXCEPT ![file_id].pc = "ended", ![file_id].exit = "drained"]
       ELSE gen' = [gen EXCEPT ![file_id].pc = "read"]
    /\ ev' = NoEvent
    /\ UNCHANGED <<active_downloads, dir, written, job, now, reaper>>

GenStep(file_id) ==
    \/ GenGlob(file_id) \/ GenExists(file_id) \/ GenGetsize(file_id)
    \/ GenPoll(file_id) \/ GenOpen(file_id) \/ GenRead(file_id)
    \/ GenYield(file_id) \/ GenDrain(file_id)

(* ----------------------- delete_session_files -------------------------- *)

\* delete_session_files without the try of line 62 around os.remove: the
\* first refusal ends the loop (in the except clause of line 67), with only
\* the files visited before it removed.
delete_session_files_Abort(caller, session_id, failed) ==
    IF session_id = <<>>
    THEN ev' = NoEvent /\ UNCHANGED <<active_downloads, dir, written, job, gen, now, reaper>>
    ELSE LET files == glob(session_id \o Sep \o Star) IN
         /\ failed \subseteq files
         /\ \E done \in SUBSET (files \ failed) :
               /\ (failed = {} => done = files)
               /\ dir' = Unlink(done)
               /\ ev' = [op |-> "delete_session_files", by |-> caller,
                         session_id |-> session_id, files |-> files, failed |-> failed,
                         removed |-> done, raised |-> FALSE]
         /\ UNCHANGED <<active_downloads, written, job, gen, now, reaper>>

\* lines 54-68, called by `caller`. files = glob.glob(f"{session_id}_*");
\* os.remove of each; the system refuses the removal of the files in
\* `failed` (OSError, line 65), which are logged and skipped.
delete_session_files(caller, session_id, failed) ==
    IF session_id = <<>>
    THEN ev' = NoEvent /\ UNCHANGED <<active_downloads, dir, written, job, gen, now, reaper>>
    ELSE LET files == glob(session_id \o Sep \o Star) IN
         /\ failed \subseteq files
         /\ dir' = Unlink(files \ failed)
         /\ ev' = [op |-> "delete_session_files", by |-> caller,
                   session_id |-> session_id, files |-> files, failed |-> failed,
                   removed |-> files \ failed, raised |-> FALSE]
         /\ UNCHANGED <<active_downloads, written, job, gen, now, reaper>>

\* search(), lines 126-128: old files of the session are cleaned up first.
\* The metadata lookup that follows touches none of the state.
search(session_id, failed) ==
    /\ session_id # <<>>
    /\ delete_session_files("search", session_id, failed)

\* cleanup_session(), lines 229-232.
cleanup_session(session_id, failed) ==
    /\ session_id # <<>>
    /\ delete_session_files("cleanup_session", session_id, failed)

(* -------------------------- clean_stale_files -------------------------- *)

\* The sweep ends: normally, or in its except clause (lines 40-41) after
\* `raised`; `refused` is the entry whose removal the system refused, if any;
\* `left` are the entries that were past the cutoff when the sweep began and
\* are still there, as old as they were.
SweepEnd(raised, refused) ==
    [op |-> "clean_stale_files.return", raised |-> raised, refused |-> refused,
     start |-> reaper.start, stale |-> reaper.stale,
     left |-> {n \in reaper.stale \cap DOMAIN dir :
                 reaper.start - dir[n].ctime > cutoff}]

\* lines 32-34: now = time.time(); the listing of the directory is taken.
ReaperStart ==
    /\ reaper.pc = "idle"
    /\ reaper' = [pc |-> "loop", start |-> now, todo |-> DOMAIN dir, filename |-> None,
                  stale |-> {n \in DOMAIN dir : now - dir[n].ctime > cutoff}]
    /\ ev' = NoEvent
    /\ UNCHANGED <<active_downloads, dir, written, job, gen, now>>

\* lines 34-36: the next filename of the listing (in the system's order);
\* os.path.isfile is false of an entry that is gone.
ReaperNext ==
    /\ reaper.pc = "loop"
    /\ IF reaper.todo = {}
       THEN /\ reaper' = NoReaper
            /\ ev' = SweepEnd(FALSE, {})
       ELSE /\ \E filename \in reaper.todo :
                 reaper' = [reaper EXCEPT !.todo = @ \ {filename},
                              !.pc = IF filename \in DOMAIN dir THEN "getctime" ELSE "loop",
                              !.filename = IF filename \in DOMAIN dir THEN filename ELSE None]
            /\ ev' = NoEvent
    /\ UNCHANGED <<active_downloads, dir, written, job, gen, now>>

\* ReaperGetctime with >= cutoff for > cutoff.
ReaperGetctime_AtCutoff ==
    /\ reaper.pc = "getctime"
    /\ IF reaper.filename \notin DOMAIN dir
       THEN /\ reaper' = NoReaper
            /\ ev' = SweepEnd(TRUE, {})
       ELSE /\ ev' = NoEvent
            /\ IF reaper.start - dir[reaper.filename].ctime >= cutoff
               THEN reaper' = [reaper EXCEPT !.pc = "remove"]
               ELSE reaper' = [reaper EXCEPT !.pc = "loop", !.filename = None]
    /\ UNCHANGED <<active_downloads, dir, written, job, gen, now>>

\* line 37: now - os.path.getctime(filepath) > cutoff; getctime raises
\* when the entry is gone, which ends the sweep in the except clause.
ReaperGetctime ==
    /\ reaper.pc = "getctime"
    /\ IF reaper.filename \notin DOMAIN dir
       THEN /\ reaper' = NoReaper
            /\ ev' = SweepEnd(TRUE, {})
       ELSE /\ ev' = NoEvent
            /\ IF reaper.start - dir[reaper.filename].ctime > cutoff
               THEN reaper' = [reaper EXCEPT !.pc = "remove"]
               ELSE reaper' = [reaper EXCEPT !.pc = "loop", !.filename = None]
    /\ UNCHANGED <<active_downloads, dir, written, job, gen, now>>

\* line 38: os.remove(filepath). It raises when the entry is gone or when
\* the system refuses the removal, which ends the sweep in the except clause.
ReaperRemove(refuse) ==
    /\ reaper.pc = "remove"
    /\ IF reaper.filename \notin DOMAIN dir
       THEN /\ ~refuse
            /\ reaper' = NoReaper
            /\ ev' = SweepEnd(TRUE, {})
            /\ dir' = dir
       ELSE IF refuse
       THEN /\ reaper' = NoReaper
            /\ ev' = SweepEnd(TRUE, {reaper.filename})
            /\ dir' = dir
       ELSE /\ dir' = Unlink({reaper.filename})
            /\ ev' = [op |-> "clean_stale_files.remove", removed |-> reaper.filename,
                      born |-> dir[reaper.filename].born, start |-> reaper.start]
            /\ reaper' = [reaper EXCEPT !.pc = "loop", !.filename = None]
    /\ UNCHANGED <<active_downloads, written, job, gen, now>>

\* Time passes.
Tick(t) ==
    /\ t \in Instants /\ t > now
    /\ now' = t
    /\ ev' = NoEvent
    /\ UNCHANGED <<active_downloads, dir, written, job, gen, reaper>>

(* --------------------------- specifications ---------------------------- *)

JobStep(file_id, sizes, touches) ==
    \/ JobBegin(file_id)
    \/ \E size \in sizes, touch \in touches : EngineWrite(file_id, size, touch)
    \/ JobCompleted(file_id)
    \/ JobError(file_id)

ReaperStep ==
    \/ ReaperStart
    \/ ReaperNext
    \/ ReaperGetctime
    \/ \E refuse \in BOOLEAN : ReaperRemove(refuse)

\* One client session streaming one download, with both cleanup triggers,
\* the reaper and a coarse clock.
Next ==
    \/ stream(TokA, U1)
    \/ \E file_id \in FileIds : JobStep(file_id, Sizes, {FALSE})
    \/ \E file_id \in FileIds : GenStep(file_id) \/ GenClose(file_id)
    \/ \E failed \in SUBSET DOMAIN dir : search(TokA, failed)
    \/ \E failed \in SUBSET DOMAIN dir : cleanup_session(TokA, failed)
    \/ ReaperStep
    \/ Tick(cutoff + 1)

Spec == Init /\ [][Next]_vars

\* The producer and the consumer of one download alone. The server keeps
\* iterating the response generator; nothing obliges the engine to return.
NextStream ==
    \/ stream(TokA, U1)
    \/ \E file_id \in FileIds : JobStep(file_id, Sizes, {FALSE})
    \/ \E file_id \in FileIds : GenStep(file_id) \/ GenClose(file_id)

FairStream ==
    Init /\ [][NextStream]_vars /\ WF_vars(\E file_id \in FileIds : GenStep(file_id))

\* The session file store: downloads of any session tokens leave files, and
\* both cleanup triggers are called with any token. The response generators
\* are left out: they never change the directory.
NextStore ==
    \/ \E session_id \in Tokens, u \in Uuids : stream(session_id, u)
    \/ \E file_id \in FileIds : JobStep(file_id, {MinBytes + 1}, {FALSE})
    \/ \E session_id \in Tokens, failed \in SUBSET DOMAIN dir : search(session_id, failed)
    \/ \E session_id \in Tokens, failed \in SUBSET DOMAIN dir :
          cleanup_session(session_id, failed)

\* The producer and the consumer of one download, with a thread that gets
\* scheduled and an engine that returns, one way or the other.
FairJob ==
    /\ Init /\ [][NextStream]_vars
    /\ WF_vars(\E file_id \in FileIds :
                  JobBegin(file_id) \/ JobCompleted(file_id) \/ JobError(file_id))

SpecStore == Init /\ [][NextStore]_vars

\* The reaper over the files of two sessions, with the session cleanup and
\* the clock. The response generators are left out as above.
NextReaper ==
    \/ stream(TokA, U1)
    \/ stream(TokB, U2)
    \/ \E file_id \in FileIds : JobStep(file_id, {MinBytes + 1}, BOOLEAN)
    \/ \E session_id \in {TokA, TokB}, failed \in SUBSET DOMAIN dir :
          cleanup_session(session_id, failed)
    \/ ReaperStep
    \/ \E t \in Instants : Tick(t)

SpecReaper == Init /\ [][NextReaper]_vars

(* ------------------------------ claims --------------------------------- *)

Ended(file_id) == file_id \in Started /\ gen[file_id].pc = "ended"

Fid1 == FileId(TokA, U1)

Fid2 == FileId(TokA, U2)

Bytes(file_id) == IF written[file_id] < 0 THEN 0 ELSE written[file_id]

\* C1: every polling loop of generate() is bounded, so the handler of a
\* stream request always returns, also when the job never reaches a
\* terminal status and the file stops growing.
C1_HandlerReturns == (Fid1 \in Started) ~> Ended(Fid1)

\* C2: once a file-id's status is completed or error, no step of any
\* thread changes it.
C2_StatusMonotonic ==
    [][\A i \in DOMAIN active_downloads :
          active_downloads[i] \in Terminal =>
             i \in DOMAIN active_downloads' /\ active_downloads'[i] = active_downloads[i]]_vars

\* A terminal status that the draining loop has read, the file since removed.
C2_Witness ==
    /\ Get(Fid1) \in Terminal
    /\ Fid1 \in Started /\ gen[Fid1].exit = "drained"
    /\ OutputPath(Fid1) \notin DOMAIN dir

\* C3: delete_session_files(A) removes no file prefixed by B_ for a token
\* B distinct from A, when neither A_ nor B_ is a literal prefix of the other.
C3_PrefixIsolation ==
    ev.op = "delete_session_files" =>
        \A B \in Tokens :
            LET A_ == ev.session_id \o Sep
                B_ == B \o Sep
            IN  (B # ev.session_id /\ ~IsPrefix(A_, B_) /\ ~IsPrefix(B_, A_))
                    => \A n \in ev.removed : ~IsPrefix(B_, n)

\* C4: the bytes generate() has read and the bytes it has emitted for a
\* file-id never exceed the bytes the job has written to that file-id's
\* output file so far.
C4_EmittedWithinWritten ==
    \A i \in Started :
        /\ gen[i].emitted <= Bytes(i)
        /\ gen[i].emitted + gen[i].chunk <= Bytes(i)

\* The stream has caught up with a job that is still writing.
C4_Witness ==
    /\ Fid1 \in Started
    /\ job[Fid1] = "engine"
    /\ gen[Fid1].emitted > 0
    /\ gen[Fid1].emitted = written[Fid1]

\* C5: once the buffering loop has seen the file above the threshold, the
\* first chunk is read and yielded without a look at the status: the first
\* read is not empty, the status is consulted only after some chunk was
\* read, and no step from the open to the first yield waits for anything.
C5_FirstChunkNoWait ==
    \A i \in Started :
        LET g == gen[i] IN
        /\ (g.pc = "read" /\ g.pos = 0) => written[g.f] > 0
        /\ (g.pc = "drain") => g.pos > 0
        /\ (g.pc \in {"open", "read", "yield"} /\ g.emitted = 0)
              => ENABLED (GenOpen(i) \/ GenRead(i) \/ GenYield(i))

\* Bytes have been emitted while the status is still 'downloading'.
C5_Witness ==
    /\ Fid1 \in Started
    /\ gen[Fid1].emitted > 0
    /\ Get(Fid1) = "downloading"
    /\ job[Fid1] = "engine"

\* C6: clean_stale_files removes a file only at a sweep that started more
\* than the cutoff after the file was created.
C6_ReaperRetention ==
    ev.op = "clean_stale_files.remove" => ev.start > ev.born + cutoff

\* A file removed at the first instant the cutoff allows.
C6_Witness ==
    /\ ev.op = "clean_stale_files.remove"
    /\ ev.start = ev.born + cutoff + 1

\* C7: every file that is past the cutoff when a sweep starts (and stays as
\* old, and whose removal the system does not refuse) is gone when that
\* sweep ends, also when another entry of the listing is deleted while the
\* sweep runs.
C7_ReaperDeadline ==
    ev.op = "clean_stale_files.return" => ev.left \subseteq ev.refused

\* C8: a job whose engine returned has set 'completed', a job whose engine
\* raised has set 'error', the thread ends in one of these two ways, and
\* a job writes no registry entry but its own.
C8_JobOutcome ==
    /\ DOMAIN active_downloads \subseteq Started
    /\ \A i \in Started :
        /\ job[i] \in {"spawned", "engine", "returned_ok", "returned_err"}
        /\ job[i] = "spawned" => Get(i) = "absent"
        /\ job[i] = "engine" => Get(i) = "downloading"
        /\ job[i] = "returned_ok" => Get(i) = "completed"
        /\ job[i] = "returned_err" => Get(i) = "error"

\* Two jobs have ended, one each way.
C8_Witness ==
    \E i, j \in Started : job[i] = "returned_ok" /\ job[j] = "returned_err"

\* C9: delete_session_files removes every matching file whose deletion
\* does not fail, whatever subset fails, and does not raise.
C9_BatchTolerant ==
    ev.op = "delete_session_files" =>
        /\ (ev.files \ ev.failed) \cap DOMAIN dir = {}
        /\ ~ev.raised

\* A batch in which one deletion failed and another file was removed.
C9_Witness ==
    /\ ev.op = "delete_session_files"
    /\ ev.failed # {}
    /\ ev.removed # {}

\* C10: a generate() that left the buffering loop on 'error' or on its
\* budget has emitted nothing, and bytes are read or emitted only from a
\* file that was seen above the threshold.
C10_AbortEmitsNothing ==
    \A i \in Started :
        LET g == gen[i] IN
        /\ g.exit \in {"error", "timeout"} => (g.emitted = 0 /\ g.filepath = None)
        /\ (g.emitted > 0 \/ g.chunk > 0) => (g.filepath # None /\ written[g.f] > MinBytes)

\* The budget ran out over a file that stayed at the threshold.
C10_Witness ==
    /\ Fid1 \in Started
    /\ gen[Fid1].exit = "timeout"
    /\ written[Fid1] = MinBytes
    /\ OutputPath(Fid1) \in DOMAIN dir

\* C11: when a fetch of a session begins right after a search of that
\* session that followed an earlier fetch, the directory holds no file of
\* the earlier fetch, also when the earlier job is still running.
C11_SecondFetchFindsNone ==
    [][(/\ ev.op = "delete_session_files" /\ ev.by = "search" /\ ev.session_id = TokA
        /\ Fid1 \in Started /\ Fid2 \notin Started
        /\ Fid2 \in DOMAIN job')
          => glob(Fid1 \o Star)' = {}]_vars

\* C12: 'downloading' is set before the job runs asynchronously, so every
\* read of the registry that generate() makes for its own file-id, from the
\* first poll on, finds an entry.
C12_ReadNeverAbsent ==
    \A i \in Started : gen[i].pc \in {"status", "drain"} => Get(i) # "absent"

\* C16: a buffering loop that gives up on its budget has slept exactly 60
\* times (the local `timeout` counts the sleeps).
C16_SixtySleeps ==
    \A i \in Started : gen[i].exit = "timeout" => gen[i].timeout = MaxPolls

\* C18: generate() never ends by an exception, also when the output file is
\* deleted between its glob, its exists/getsize probe and its open.
C18_NoUnhandledException ==
    \A i \in Started : gen[i].exit # "raised"

\* C13: the registry changes only in a step of a download job, which writes
\* the entry of its own file-id and no other: no step of generate(), of the
\* two cleanup routes, of the reaper or of the clock changes it.
C13_RegistrySingleWriter ==
    [][active_downloads' # active_downloads =>
          \E x \in Started :
              /\ job'[x] # job[x]
              /\ \A y \in FileIds \ {x} : Get(y)' = Get(y)
              /\ UNCHANGED <<gen, dir, reaper, now>>]_vars

\* The reaper has just removed the file of a download whose handler went
\* through both phases, and the job's entry stands as the job wrote it.
C13_Witness ==
    /\ ev.op = "clean_stale_files.remove"
    /\ Fid1 \in Started /\ ev.removed = OutputPath(Fid1)
    /\ gen[Fid1].pc = "drain"
    /\ Get(Fid1) = "downloading"

\* C14: the step by which generate() ends, whatever its way of ending,
\* leaves the job where it is, and a job whose handler has returned still
\* sets a terminal status, provided the engine returns.
C14_JobOutlivesHandler ==
    /\ [][\A i \in Started :
             (gen[i].pc # "ended" /\ gen'[i].pc = "ended")
                 => (job' = job /\ active_downloads' = active_downloads)]_vars
    /\ Ended(Fid1) ~> (Get(Fid1) \in Terminal)

\* The handler gave up on its budget and the job is still in the engine.
C14_Witness ==
    /\ Fid1 \in Started
    /\ gen[Fid1].exit = "timeout"
    /\ job[Fid1] = "engine"
    /\ Get(Fid1) = "downloading"

\* C15: a file that clean_stale_files removes is the output of a job that
\* has reached a terminal status and that no generate() is draining.
C15_ReapsOnlyFinished ==
    ev.op = "clean_stale_files.remove" =>
        \A i \in Started :
            OutputPath(i) = ev.removed =>
                /\ Get(i) \in Terminal
                /\ gen[i].pc \notin {"open", "read", "yield", "drain"}

\* C17: a draining loop that stops on 'completed', its file still in the
\* directory, has emitted every byte of the final file.
C17_StreamComplete ==
    \A i \in Started :
        (gen[i].exit = "drained" /\ Get(i) = "completed" /\ OutputPath(i) \in DOMAIN dir)
            => gen[i].emitted = written[i]

\* C19: once the job has set 'completed' on a non-empty file while the
\* buffering loop still has budget, generate() comes to emit bytes of the
\* file (unless the client leaves at the first chunk), whatever the size.
C19_CompletedIsStreamed ==
    (/\ Fid1 \in Started
     /\ Get(Fid1) = "completed" /\ written[Fid1] > 0
     /\ gen[Fid1].pc \in {"glob", "exists", "getsize", "status"}
     /\ gen[Fid1].timeout < MaxPolls)
        ~> (Fid1 \in Started /\ (gen[Fid1].emitted > 0 \/ gen[Fid1].exit = "closed"))

====
